---------------------------- MODULE Spec2Model ----------------------------
(***************************************************************************)
(* Model of the text-extraction pipeline of the Mayu AI backend.  Three    *)
(* variants of the backend live in the repository:                        *)
(*   src/main.py                      upload-in-request variant (/extract) *)
(*   src/app/main.py                  file_id variant (extract-many,       *)
(*                                    auto-refine)                         *)
(*   src/app/_trash/app_app_old/main.py   index-based variant              *)
(*                                                                         *)
(* A text is a sequence of atoms.  An atom is one character, or one        *)
(* literal piece of a format string that holds no whitespace at its ends   *)
(* that a strip() could reach.  Whitespace is always an atom of its own,   *)
(* so strip(), rstrip(), slicing and len() are computed on texts of        *)
(* characters exactly as Python computes them.                             *)
(***************************************************************************)
EXTENDS Integers, Sequences, FiniteSets

VARIABLES
    t_fn,        \* truncation run: which truncator is applied
    t_text,      \* truncation run: the input text
    t_max,       \* truncation run: the budget max_chars
    t_out,       \* truncation run: results of the successive applications
    x_op,        \* single-file request: the endpoint called
    x_file,      \* single-file request: the file sent or referenced
    x_res,       \* single-file request: the response, NoResponse before it
    b_op,        \* batch or refine request: the endpoint called
    b_store,     \* the upload directory: what each file_id resolves to
    b_doctor,    \* request.doctorText
    b_att,       \* request.attachmentsText, or attachments_text of auto_refine
    b_tr,        \* request.transcriptText, or transcript_text of auto_refine
    b_file_ids,  \* request.file_ids
    b_audio_ids, \* request.audio_file_ids
    b_pc,        \* where the handler is: "files", "audio", "compose",
                 \* "done" ("idle" without a request)
    b_i,         \* position of the loop over file_ids
    b_j,         \* position of the loop over audio_file_ids
    b_parts,     \* combined_parts / attachments_parts
    b_tparts,    \* transcript_parts
    b_out,       \* the text composed: combined, unified, or the prompt
    b_sent,      \* the text handed to the external refiner
    r_op,        \* refiner reply: the refine endpoint that receives it
    r_reply,     \* refiner reply: what the external refiner answered
    r_fn,        \* refiner reply: what refine_with_openai returned
    r_res,       \* refiner reply: the endpoint's response, NoRefined before
    s_variant,   \* blob store: "top" is src/storage.py, "old" the storage.py
                 \* next to the index-based variant
    s_files,     \* blob store: the uploads, each its file_id and stored name
    s_look,      \* blob store: the last lookup, its file_id and what it gave
    i_file,      \* index: what INDEX_FILE holds on disk
    i_pc,        \* index: where each /upload request is
    i_idx,       \* index: the dictionary idx of each /upload request
    i_returned,  \* index: the file_ids that completed uploads returned
    i_look,      \* index: the request that looks a returned file_id up
    e_n,         \* /extract: the requests completed so far
    e_pc,        \* /extract: where the request in progress is
    e_file,      \* /extract: the upload of the request in progress
    e_tmp,       \* /extract: the temporary files that exist
    e_res        \* /extract: how the last extraction block ended

truncVars == <<t_fn, t_text, t_max, t_out>>

extractVars == <<x_op, x_file, x_res>>

batchVars ==
    <<b_op, b_store, b_doctor, b_att, b_tr, b_file_ids, b_audio_ids, b_pc,
      b_i, b_j, b_parts, b_tparts, b_out, b_sent>>

refineVars == <<r_op, r_reply, r_fn, r_res>>

storeVars == <<s_variant, s_files, s_look>>

indexVars == <<i_file, i_pc, i_idx, i_returned, i_look>>

tempVars == <<e_n, e_pc, e_file, e_tmp, e_res>>

vars ==
    <<truncVars, extractVars, batchVars, refineVars, storeVars, indexVars,
      tempVars>>

\* what the actions of one kind of run leave alone
exceptTrunc ==
    <<extractVars, batchVars, refineVars, storeVars, indexVars,
      tempVars>>
exceptExtract ==
    <<truncVars, batchVars, refineVars, storeVars, indexVars,
      tempVars>>
exceptBatch ==
    <<truncVars, extractVars, refineVars, storeVars, indexVars,
      tempVars>>
exceptRefine ==
    <<truncVars, extractVars, batchVars, storeVars, indexVars,
      tempVars>>
exceptIndex ==
    <<truncVars, extractVars, batchVars, refineVars, storeVars, tempVars>>
exceptTemp ==
    <<truncVars, extractVars, batchVars, refineVars, storeVars, indexVars>>
exceptStore ==
    <<truncVars, extractVars, batchVars, refineVars, indexVars, tempVars>>

----------------------------------------------------------------------------
(* Bounds of the model *)

\* longest input text of a truncation run
MaxLen == 5

\* largest budget of a truncation run
MaxBudget == 4

----------------------------------------------------------------------------
(* Python string primitives *)

\* str.isspace() on the characters the model uses
IsSpace(c) == c \in {" ", "\n"}

\* s[:n]
Take(s, n) == IF n >= Len(s) THEN s ELSE SubSeq(s, 1, n)

RECURSIVE LStrip(_)
\* str.lstrip()
LStrip(s) == IF s # <<>> /\ IsSpace(Head(s)) THEN LStrip(Tail(s)) ELSE s

RECURSIVE RStrip(_)
\* str.rstrip()
RStrip(s) ==
    IF s # <<>> /\ IsSpace(s[Len(s)]) THEN RStrip(SubSeq(s, 1, Len(s) - 1)) ELSE s

\* str.strip()
Strip(s) == RStrip(LStrip(s))

\* s.endswith(m)
EndsWith(s, m) ==
    /\ Len(m) <= Len(s)
    /\ SubSeq(s, Len(s) - Len(m) + 1, Len(s)) = m

\* every text of at most n characters over the alphabet A
TextsUpTo(A, n) == UNION {[1..k -> A] : k \in 0..n}

----------------------------------------------------------------------------
(* Truncators *)

\* "\n\n[...TRUNCADO POR LÍMITE...]" (the accented I written as I)
ClipMarker ==
    <<"\n", "\n", "[", ".", ".", ".", "T", "R", "U", "N", "C", "A", "D", "O",
      " ", "P", "O", "R", " ", "L", "I", "M", "I", "T", "E", ".", ".", ".", "]">>

\* "\n\n[TRUNCADO POR LÍMITE DE TAMAÑO]" (accented letters written plain)
TruncateMarker ==
    <<"\n", "\n", "[", "T", "R", "U", "N", "C", "A", "D", "O", " ", "P", "O",
      "R", " ", "L", "I", "M", "I", "T", "E", " ", "D", "E", " ", "T", "A",
      "M", "A", "N", "O", "]">>

\* _clip_text without the strip of its argument
ClipNoStrip(s, max_chars) ==
    IF s = <<>> THEN <<>>
    ELSE IF Len(s) <= max_chars THEN s
    ELSE RStrip(Take(s, max_chars)) \o ClipMarker

\* _clip_text cutting one character late
ClipOffByOne(s, max_chars) ==
    LET t == Strip(s) IN
    IF t = <<>> THEN <<>>
    ELSE IF Len(t) <= max_chars THEN t
    ELSE Take(t, max_chars + 1) \o ClipMarker

\* src/main.py _clip_text
_clip_text(s, max_chars) ==
    LET t == Strip(s) IN
    IF t = <<>> THEN <<>>
    ELSE IF Len(t) <= max_chars THEN t
    ELSE RStrip(Take(t, max_chars)) \o ClipMarker

\* src/app/main.py _truncate
_truncate(text, max_chars) ==
    LET t == Strip(text) IN
    IF Len(t) <= max_chars THEN t
    ELSE Take(t, max_chars) \o TruncateMarker

\* the marker the truncator fn appends
MarkerOf(fn) == IF fn = "_clip_text" THEN ClipMarker ELSE TruncateMarker

----------------------------------------------------------------------------
(* Truncation runs: a truncator applied to a text, then to its own result *)

TruncAlphabet == {"a", " ", "\n"}

\* no truncation run
TruncIdle ==
    /\ t_fn = "none"
    /\ t_text = <<>>
    /\ t_max = 0
    /\ t_out = <<>>

TruncInit ==
    /\ t_fn \in {"_clip_text", "_truncate"}
    /\ t_text \in TextsUpTo(TruncAlphabet, MaxLen)
    /\ t_max \in 0..MaxBudget
    /\ t_out = <<>>

\* the text the next application receives
TruncArg == IF t_out = <<>> THEN t_text ELSE t_out[Len(t_out)]

ApplyClipText ==
    /\ t_fn = "_clip_text"
    /\ Len(t_out) < 2
    /\ t_out' = Append(t_out, _clip_text(TruncArg, t_max))
    /\ UNCHANGED <<t_fn, t_text, t_max>>
    /\ UNCHANGED exceptTrunc

ApplyTruncate ==
    /\ t_fn = "_truncate"
    /\ Len(t_out) < 2
    /\ t_out' = Append(t_out, _truncate(TruncArg, t_max))
    /\ UNCHANGED <<t_fn, t_text, t_max>>
    /\ UNCHANGED exceptTrunc

TruncNext == ApplyClipText \/ ApplyTruncate

----------------------------------------------------------------------------
(* Files and the libraries' answers                                        *)
(*                                                                         *)
(* A file is its declared name and content type together with what each    *)
(* external library answers when it is asked about the file: PyMuPDF and   *)
(* tesseract per page, PyPDF2, the plain read of the file, and the speech  *)
(* API.  An answer is a text or an exception.  A library that cannot be    *)
(* imported or cannot open the file raises inside the same try block as    *)
(* its first page call, so it is the failure of the first page.            *)

\* a library call that returns the text t
Ok(t) == [ok |-> TRUE, text |-> t]

\* a library call that raises
Fails == [ok |-> FALSE, text |-> <<>>]

\* str.join
RECURSIVE Join(_, _)
Join(parts, sep) ==
    IF parts = <<>> THEN <<>>
    ELSE IF Len(parts) = 1 THEN parts[1]
    ELSE parts[1] \o sep \o Join(Tail(parts), sep)

\* "\n\n"
BlankLine == <<"\n", "\n">>

\* most pages of a PDF of the model
MaxPages == 3

\* str.lower() on the name atoms the model uses
LowerAtom(a) ==
    CASE a = "PDF" -> "pdf"
      [] a = "JPG" -> "jpg"
      [] a = "FLAC" -> "flac"
      [] a = "Txt" -> "txt"
      [] OTHER -> a

\* str.lower()
Lower(s) == [i \in 1..Len(s) |-> LowerAtom(s[i])]

\* the extensions the model names files with: those of the table of spec
\* section 4.1, some in upper case, and one outside the table
NameExts ==
    {"txt", "md", "pdf", "png", "jpg", "jpeg", "webp", "tif", "tiff", "bmp",
     "mp3", "wav", "m4a", "aac", "ogg", "webm", "flac",
     "PDF", "JPG", "FLAC", "Txt", "exe"}

FileNames == {<<"f">>} \cup {<<"f", ".", e>> : e \in NameExts}

OctetStream == <<"application", "/", "octet-stream">>

ContentTypes ==
    {OctetStream, <<"text", "/", "plain">>, <<"application", "/", "pdf">>,
     <<"image", "/", "png">>, <<"audio", "/", "mpeg">>}

\* one page of a PDF (an image is a single page): PyMuPDF's get_text and
\* tesseract on the rendered page
PageAnswers ==
    [fitz : {Ok(<<" ">>), Ok(<<"a", "\n">>), Fails},
     ocr  : {Ok(<<" ">>), Ok(<<"b", "\n">>), Fails}]

PagesUpTo(n) == UNION {[1..k -> PageAnswers] : k \in 1..n}

\* PDFs of up to MaxPages pages; PyPDF2 is absent, or reads every page as
\* blank, or reads text on every page
PdfFiles ==
    [name : {<<"f", ".", "pdf">>}, ctype : {<<"application", "/", "pdf">>},
     pages : PagesUpTo(MaxPages), pypdf : {"absent", "blank", "text"},
     content : {<<>>}, stt : {Fails}]

\* the bytes of a file: ASCII bytes are written as their character, "C3"
\* "A9" is the two-byte encoding of one character, and "FF", a lone "C3" and
\* a lone "A9" are not UTF-8
FileContents ==
    {<<>>, <<" ", "x", "\n">>, <<" ", "C3", "A9", "x">>,
     <<"x", "FF", "C3", "\n">>}

RECURSIVE Decode(_, _)
\* bytes.decode("utf-8", errors): an invalid byte is dropped under "ignore"
\* and becomes U+FFFD under "replace"
Decode(bytes, errors) ==
    IF bytes = <<>> THEN <<>>
    ELSE IF Len(bytes) >= 2 /\ bytes[1] = "C3" /\ bytes[2] = "A9"
    THEN <<"e-acute">> \o Decode(SubSeq(bytes, 3, Len(bytes)), errors)
    ELSE IF bytes[1] \in {"C3", "A9", "FF"}
    THEN (IF errors = "replace" THEN <<"U+FFFD">> ELSE <<>>)
             \o Decode(Tail(bytes), errors)
    ELSE <<bytes[1]>> \o Decode(Tail(bytes), errors)

\* one-page files under every name and content type
OtherFiles ==
    [name : FileNames, ctype : ContentTypes,
     pages : {<<p>> : p \in {q \in PageAnswers : q.fitz = Ok(<<"a", "\n">>)}},
     pypdf : {"absent"},
     content : FileContents,
     stt : {Ok(<<"t", " ">>), Ok(<<>>), Fails}]

\* the default of max_pages of _ocr_pdf_if_needed
OcrMaxPages == 5

\* a page with more embedded text than the other pages of the model
FullPage == [fitz |-> Ok(<<"a", "a", "a", "\n">>), ocr |-> Fails]

\* PDFs with one page more than the OCR stage of src/app/main.py renders,
\* every page alike
LongPdfFiles ==
    [name : {<<"f", ".", "pdf">>}, ctype : {<<"application", "/", "pdf">>},
     pages : {[i \in 1..(OcrMaxPages + 1) |-> p] :
                 p \in PageAnswers \cup {FullPage}},
     pypdf : {"absent", "blank", "text"},
     content : {<<>>}, stt : {Fails}]

Files == PdfFiles \cup LongPdfFiles \cup OtherFiles

\* a file_id no upload returned
NoFile ==
    [name |-> <<>>, ctype |-> <<>>, pages |-> <<>>, pypdf |-> "absent",
     content |-> <<>>, stt |-> Fails]

\* PyPDF2's extract_text on page i
PyPdfPage(file, i) ==
    CASE file.pypdf = "text" -> Ok(<<"c", "\n">>)
      [] file.pypdf = "blank" -> Ok(<<>>)
      [] OTHER -> Fails

----------------------------------------------------------------------------
(* Results of functions and responses of endpoints *)

\* a function returns text, after n tesseract calls
Return(text, n) ==
    [kind |-> "return", text |-> text, exc |-> "", status |-> "",
     msg |-> <<>>, ocr_calls |-> n, text_reads |-> 0]

\* a function raises exception exc, after n tesseract calls
Raise(exc, status, msg, n) ==
    [kind |-> "raise", text |-> <<>>, exc |-> exc, status |-> status,
     msg |-> msg, ocr_calls |-> n, text_reads |-> 0]

\* r, after k pages were asked for their embedded text
WithTextReads(r, k) == [r EXCEPT !.text_reads = k]

\* str(e): HTTPException prints "<status>: <detail>", the others their message
StrExc(r) ==
    IF r.exc = "HTTPException"
    THEN <<r.status, ":", " ">> \o r.msg
    ELSE r.msg

\* what the framework answers for a handler that ended with r: the returned
\* body, the error response of an HTTPException, or nothing of the handler's
\* for an exception that escaped it
Respond(r) ==
    [kind |-> IF r.kind = "return" THEN "ok"
              ELSE IF r.exc = "HTTPException" THEN "http_error"
              ELSE "unhandled",
     text |-> r.text, exc |-> r.exc, status |-> r.status, msg |-> r.msg,
     ocr_calls |-> r.ocr_calls, text_reads |-> r.text_reads]

NoResponse ==
    [kind |-> "none", text |-> <<>>, exc |-> "", status |-> "", msg |-> <<>>,
     ocr_calls |-> 0, text_reads |-> 0]

\* messages of the libraries' exceptions
FitzError == <<"FileDataError">>
OcrError == <<"TesseractNotFoundError">>
SttError == <<"APIConnectionError">>

----------------------------------------------------------------------------
(* src/app/main.py: extraction by file extension *)

IMAGE_EXTS ==
    {<<".", e>> : e \in {"png", "jpg", "jpeg", "webp", "tif", "tiff", "bmp"}}
TEXT_EXTS == {<<".", "txt">>, <<".", "md">>}
PDF_EXTS == {<<".", "pdf">>}
AUDIO_EXTS == {<<".", e>> : e \in {"m4a", "mp3", "wav", "aac", "ogg", "webm"}}

\* Path.suffix.lower(): the last dot and what follows it, "" without a dot
_ext(name) ==
    IF Len(name) >= 3 /\ name[Len(name) - 1] = "."
    THEN <<".", LowerAtom(name[Len(name)])>>
    ELSE <<>>

\* read_text(encoding="utf-8", errors="ignore")
_read_text_file(file) == Decode(file.content, "ignore")

\* Image.open and pytesseract.image_to_string
_ocr_image_file(file) ==
    IF file.pages[1].ocr.ok
    THEN Return(file.pages[1].ocr.text, 1)
    ELSE Raise("Exception", "", OcrError, 1)

RECURSIVE PdfTextChunks(_, _, _)
\* the page loop of _extract_pdf_text, from page i on
PdfTextChunks(pages, i, chunks) ==
    IF i > Len(pages) THEN [ok |-> TRUE, chunks |-> chunks, reads |-> i - 1]
    ELSE IF ~pages[i].fitz.ok THEN [ok |-> FALSE, chunks |-> chunks, reads |-> i]
    ELSE LET t == Strip(pages[i].fitz.text) IN
         PdfTextChunks(pages, i + 1, IF t # <<>> THEN Append(chunks, t) ELSE chunks)

_extract_pdf_text(file) ==
    LET r == PdfTextChunks(file.pages, 1, <<>>) IN
    WithTextReads(IF r.ok THEN Return(Strip(Join(r.chunks, BlankLine)), 0)
                  ELSE Raise("Exception", "", FitzError, 0),
                  r.reads)

RECURSIVE OcrPdfChunks(_, _, _, _)
\* the page loop of _ocr_pdf_if_needed, from page i on, to page n
OcrPdfChunks(pages, i, n, chunks) ==
    IF i > n THEN [ok |-> TRUE, chunks |-> chunks, calls |-> i - 1]
    ELSE IF ~pages[i].ocr.ok THEN [ok |-> FALSE, chunks |-> chunks, calls |-> i]
    ELSE LET t == Strip(pages[i].ocr.text) IN
         OcrPdfChunks(pages, i + 1, n, IF t # <<>> THEN Append(chunks, t) ELSE chunks)

Min(a, b) == IF a <= b THEN a ELSE b

_ocr_pdf_if_needed(file, max_pages) ==
    LET r == OcrPdfChunks(file.pages, 1, Min(Len(file.pages), max_pages), <<>>) IN
    IF r.ok THEN Return(Strip(Join(r.chunks, BlankLine)), r.calls)
    ELSE Raise("Exception", "", OcrError, r.calls)

extract_text_from_any(file) ==
    LET ext == _ext(file.name) IN
    IF ext \in TEXT_EXTS THEN Return(Strip(_read_text_file(file)), 0)
    ELSE IF ext \in IMAGE_EXTS THEN
        LET r == _ocr_image_file(file) IN
        IF r.kind = "return" THEN Return(Strip(r.text), r.ocr_calls) ELSE r
    ELSE IF ext \in PDF_EXTS THEN
        LET txt == _extract_pdf_text(file) IN
        IF txt.kind = "raise" THEN txt
        ELSE IF txt.text # <<>> THEN txt
        ELSE LET o == _ocr_pdf_if_needed(file, OcrMaxPages) IN
             WithTextReads(IF o.kind = "return"
                           THEN Return(Strip(o.text), o.ocr_calls) ELSE o,
                           txt.text_reads)
    ELSE Raise("HTTPException", "400",
               <<"Tipo de archivo no soportado:", " ">> \o ext, 0)

transcribe_audio_with_openai(file) ==
    LET ext == _ext(file.name) IN
    IF ext \notin AUDIO_EXTS
    THEN Raise("HTTPException", "400",
               <<"Archivo no es audio soportado:", " ">> \o ext, 0)
    ELSE IF file.stt.ok THEN Return(Strip(file.stt.text), 0)
    ELSE Raise("HTTPException", "500",
               <<"Error transcribiendo audio:", " ">> \o SttError, 0)

\* resolve_file_path as /extract-text and /transcribe use it
FileNotFound == Raise("HTTPException", "404", <<"file_id not found">>, 0)

\* POST /extract-text of src/app/main.py
app_extract_text(file) ==
    IF file = NoFile THEN FileNotFound ELSE extract_text_from_any(file)

\* POST /transcribe of src/app/main.py
app_transcribe(file) ==
    IF file = NoFile THEN FileNotFound ELSE transcribe_audio_with_openai(file)

----------------------------------------------------------------------------
(* src/main.py: POST /extract and POST /transcribe on the uploaded file *)

\* MAX_PDF_PAGES and MAX_EXTRACT_CHARS are read from the environment; the
\* model runs a deployment that sets them low enough for its PDFs to reach
\* them
MAX_PDF_PAGES == 2
MAX_EXTRACT_CHARS == 4

\* the placeholder of a request that extracted nothing
NR == <<"NR">>

\* filename.split(".")[-1] if "." in filename else "", on the lower-cased name
SplitExt(name) ==
    LET lowered == Lower(name) IN
    IF \E i \in 1..Len(lowered) : lowered[i] = "."
    THEN IF lowered[Len(lowered)] = "." THEN "" ELSE lowered[Len(lowered)]
    ELSE ""

RECURSIVE AccumulatePages(_, _, _, _)
\* one page loop of /extract from page i on, to page n: answers[i] is the
\* library's answer for page i, extracted the text gathered so far
AccumulatePages(answers, i, n, extracted) ==
    IF i > n THEN [ok |-> TRUE, extracted |-> extracted, calls |-> i - 1]
    ELSE IF ~answers[i].ok THEN [ok |-> FALSE, extracted |-> <<>>, calls |-> i]
    ELSE LET t == Strip(answers[i].text)
             e == IF t # <<>> THEN extracted \o t \o BlankLine ELSE extracted
         IN  IF Len(e) >= MAX_EXTRACT_CHARS
             THEN [ok |-> TRUE, extracted |-> e, calls |-> i]
             ELSE AccumulatePages(answers, i + 1, n, e)

\* the PDF branch of /extract: PyMuPDF, then PyPDF2, then OCR
ExtractPdf(file) ==
    LET n == Min(Len(file.pages), MAX_PDF_PAGES)
        fitz == [i \in 1..Len(file.pages) |-> file.pages[i].fitz]
        pypdf == [i \in 1..Len(file.pages) |-> PyPdfPage(file, i)]
        ocr == [i \in 1..Len(file.pages) |-> file.pages[i].ocr]
        s1 == AccumulatePages(fitz, 1, n, <<>>)
        s2 == IF Strip(s1.extracted) = <<>>
              THEN AccumulatePages(pypdf, 1, n, s1.extracted)
              ELSE s1
        ocr_runs == Strip(s2.extracted) = <<>>
        s3 == IF ocr_runs
              THEN AccumulatePages(ocr, 1, n, s2.extracted)
              ELSE s2
        clipped == _clip_text(s3.extracted, MAX_EXTRACT_CHARS)
    IN  WithTextReads(Return(IF clipped # <<>> THEN clipped ELSE NR,
                             IF ocr_runs THEN s3.calls ELSE 0),
                      IF s2.calls > s1.calls THEN s2.calls ELSE s1.calls)

\* the extensions /extract sends to OCR as images
ExtractImageExts == {"jpg", "jpeg", "png", "webp", "tif", "tiff"}

\* the image branch of /extract
ExtractImage(file) ==
    IF file.pages[1].ocr.ok
    THEN LET text_out == Strip(file.pages[1].ocr.text) IN
         Return(_clip_text(IF text_out # <<>> THEN text_out ELSE NR,
                           MAX_EXTRACT_CHARS), 1)
    ELSE Return(NR, 1)

\* POST /extract of src/main.py
extract(file) ==
    LET ext == SplitExt(file.name) IN
    IF ext = "pdf" THEN ExtractPdf(file)
    ELSE IF ext \in ExtractImageExts THEN ExtractImage(file)
    ELSE Return(NR, 0)

\* POST /transcribe of src/main.py, with the API key configured
top_transcribe(file) ==
    IF file.content = <<>> THEN Return(NR, 0)
    ELSE IF file.stt.ok
    THEN LET text == Strip(file.stt.text) IN
         Return(IF text # <<>> THEN text ELSE NR, 0)
    ELSE Raise("HTTPException", "500",
               <<"Transcribe error:", " ">> \o SttError, 0)

----------------------------------------------------------------------------
(* src/app/_trash/app_app_old/main.py: extraction by content type and name *)

\* ct.startswith(kind + "/")
StartsWithType(ct, kind) == Len(ct) >= 2 /\ ct[1] = kind /\ ct[2] = "/"

\* name.endswith("." + e)
EndsWithExt(name, e) ==
    Len(name) >= 2 /\ name[Len(name) - 1] = "." /\ name[Len(name)] = e

RECURSIVE OldPdfChunks(_, _, _)
\* the page loop of the PDF branch, from page i on
OldPdfChunks(pages, i, chunks) ==
    IF i > Len(pages) THEN [ok |-> TRUE, chunks |-> chunks, reads |-> i - 1]
    ELSE IF ~pages[i].fitz.ok THEN [ok |-> FALSE, chunks |-> chunks, reads |-> i]
    ELSE OldPdfChunks(pages, i + 1, Append(chunks, pages[i].fitz.text))

\* [c.strip() for c in chunks if c.strip()]
StrippedNonEmpty(chunks) ==
    LET kept == SelectSeq(chunks, LAMBDA c : Strip(c) # <<>>) IN
    [i \in 1..Len(kept) |-> Strip(kept[i])]

\* _get_file_path and _get_file_meta on a file_id the index does not hold
OldNotFound == Raise("HTTPException", "404", <<"file_id no encontrado">>, 0)

\* POST /extract-text of the index-based variant
old_extract_text(file) ==
    LET ct == Lower(file.ctype)
        name == Lower(file.name)
    IN
    IF file = NoFile THEN OldNotFound
    ELSE IF StartsWithType(ct, "text") \/ EndsWithExt(name, "txt")
    THEN Return(Decode(file.content, "ignore"), 0)
    ELSE IF ct = <<"application", "/", "pdf">> \/ EndsWithExt(name, "pdf")
    THEN LET r == OldPdfChunks(file.pages, 1, <<>>) IN
         WithTextReads(
             IF r.ok
             THEN Return(Strip(Join(StrippedNonEmpty(r.chunks), <<"\n">>)), 0)
             ELSE Raise("HTTPException", "500",
                        <<"Error extrayendo texto PDF:", " ">> \o FitzError, 0),
             r.reads)
    ELSE IF \/ StartsWithType(ct, "image")
            \/ \E e \in {"png", "jpg", "jpeg", "webp"} : EndsWithExt(name, e)
    THEN IF file.pages[1].ocr.ok
         THEN Return(Strip(file.pages[1].ocr.text), 1)
         ELSE Raise("HTTPException", "500", <<"Error OCR:", " ">> \o OcrError, 1)
    ELSE Raise("HTTPException", "415",
               <<"No soportado para extraccion de texto:", " ">>
                   \o (IF ct # <<>> THEN ct ELSE <<"unknown">>), 0)

\* POST /transcribe of the index-based variant, with the API key configured
old_transcribe(file) ==
    IF file = NoFile THEN OldNotFound
    ELSE IF file.stt.ok THEN Return(Strip(file.stt.text), 0)
    ELSE Raise("HTTPException", "500",
               <<"Error transcribiendo audio:", " ">> \o SttError, 0)

----------------------------------------------------------------------------
(* Single-file requests: one endpoint called on one file *)

ExtractOps == {"extract", "app_extract_text", "old_extract_text"}
TranscribeOps == {"top_transcribe", "app_transcribe", "old_transcribe"}

\* the endpoints that take the upload itself, not a file_id
UploadOps == {"extract", "top_transcribe"}

\* no single-file request
ExtractIdle ==
    /\ x_op = "none"
    /\ x_file = NoFile
    /\ x_res = NoResponse

ExtractInit ==
    /\ x_op \in ExtractOps \cup TranscribeOps
    /\ x_file \in Files \cup {NoFile}
    /\ x_file = NoFile => x_op \notin UploadOps
    /\ x_file \in PdfFiles => x_op \in ExtractOps
    /\ x_res = NoResponse

Extract ==
    /\ x_op = "extract"
    /\ x_res = NoResponse
    /\ x_res' = Respond(extract(x_file))
    /\ UNCHANGED <<x_op, x_file>>
    /\ UNCHANGED exceptExtract

AppExtractText ==
    /\ x_op = "app_extract_text"
    /\ x_res = NoResponse
    /\ x_res' = Respond(app_extract_text(x_file))
    /\ UNCHANGED <<x_op, x_file>>
    /\ UNCHANGED exceptExtract

OldExtractText ==
    /\ x_op = "old_extract_text"
    /\ x_res = NoResponse
    /\ x_res' = Respond(old_extract_text(x_file))
    /\ UNCHANGED <<x_op, x_file>>
    /\ UNCHANGED exceptExtract

TopTranscribe ==
    /\ x_op = "top_transcribe"
    /\ x_res = NoResponse
    /\ x_res' = Respond(top_transcribe(x_file))
    /\ UNCHANGED <<x_op, x_file>>
    /\ UNCHANGED exceptExtract

AppTranscribe ==
    /\ x_op = "app_transcribe"
    /\ x_res = NoResponse
    /\ x_res' = Respond(app_transcribe(x_file))
    /\ UNCHANGED <<x_op, x_file>>
    /\ UNCHANGED exceptExtract

OldTranscribe ==
    /\ x_op = "old_transcribe"
    /\ x_res = NoResponse
    /\ x_res' = Respond(old_transcribe(x_file))
    /\ UNCHANGED <<x_op, x_file>>
    /\ UNCHANGED exceptExtract

ExtractNext ==
    \/ Extract
    \/ AppExtractText
    \/ OldExtractText
    \/ TopTranscribe
    \/ AppTranscribe
    \/ OldTranscribe

----------------------------------------------------------------------------
(* src/app/main.py: POST /extract-many, /auto-refine and /refine;          *)
(* src/main.py: POST /refine                                               *)

\* the file_ids a request may name
Ids == {"1", "2"}

\* most entries of request.file_ids
MaxFileIds == 2

\* most entries of request.audio_file_ids
MaxAudioIds == 2

\* the one-page file f.<ext> with the given answers of the plain read, of
\* tesseract and of the speech API
StoredFile(ext, content, ocr, stt) ==
    [name |-> <<"f", ".", ext>>, ctype |-> OctetStream,
     pages |-> <<[fitz |-> Ok(<<"a", "\n">>), ocr |-> ocr]>>,
     pypdf |-> "absent", content |-> content, stt |-> stt]

\* what an upload directory may hold under a file_id: a text file with or
\* without text, a file of unsupported type, an image tesseract fails on,
\* and audio the speech API transcribes, transcribes as empty, or fails on
StoredFiles ==
    {StoredFile("txt", <<" ", "x", "\n">>, Fails, Fails),
     StoredFile("txt", <<>>, Fails, Fails),
     StoredFile("exe", <<" ", "x", "\n">>, Fails, Fails),
     StoredFile("png", <<" ", "x", "\n">>, Fails, Fails),
     StoredFile("mp3", <<" ", "x", "\n">>, Fails, Ok(<<"t", " ">>)),
     StoredFile("mp3", <<" ", "x", "\n">>, Fails, Ok(<<>>)),
     StoredFile("mp3", <<" ", "x", "\n">>, Fails, Fails)}

\* every list of at most n file_ids
IdListsUpTo(n) == UNION {[1..k -> Ids] : k \in 0..n}

\* resolve_file_path: the stored file, or FileNotFoundError
resolve_file_path(store, fid) ==
    IF store[fid] = NoFile
    THEN Raise("FileNotFoundError", "", <<"file_id not found">>, 0)
    ELSE Return(<<>>, 0)

\* the try block of the attachment loops: resolve, then extract
ResolveAndExtract(store, fid) ==
    LET path == resolve_file_path(store, fid) IN
    IF path.kind = "raise" THEN path ELSE extract_text_from_any(store[fid])

\* the try block of the audio loop: resolve, then transcribe
ResolveAndTranscribe(store, fid) ==
    LET path == resolve_file_path(store, fid) IN
    IF path.kind = "raise" THEN path ELSE transcribe_audio_with_openai(store[fid])

\* an attachment loop body whose handler records nothing
FileSectionDropsError(store, fid) ==
    LET r == ResolveAndExtract(store, fid) IN
    IF r.kind = "raise" THEN <<>>
    ELSE IF r.text # <<>>
    THEN << <<"--- Documento", " ", fid, " ", "---", "\n">> \o r.text >>
    ELSE <<>>

\* one pass of the body of the attachment loop of extract_many and of
\* auto_refine: the parts it appends
FileSection(store, fid) ==
    LET r == ResolveAndExtract(store, fid) IN
    IF r.kind = "raise"
    THEN << <<"--- Error", " ", fid, ":", " ">> \o StrExc(r) \o <<" ", "---">> >>
    ELSE IF r.text # <<>>
    THEN << <<"--- Documento", " ", fid, " ", "---", "\n">> \o r.text >>
    ELSE <<>>

\* one pass of the body of the audio loop of auto_refine: the parts it appends
AudioSection(store, fid) ==
    LET r == ResolveAndTranscribe(store, fid) IN
    IF r.kind = "raise"
    THEN << <<"--- Error audio", " ", fid, ":", " ">> \o StrExc(r) \o <<" ", "---">> >>
    ELSE << <<"--- Audio", " ", fid, " ", "---", "\n">> \o r.text >>

\* the unified text of /refine and /auto-refine
Unified(doctorText, attachments_text, transcript_text) ==
    <<"DOCTOR:", "\n">> \o doctorText
        \o <<"\n", "\n", "ADJUNTOS:", "\n">> \o attachments_text
        \o <<"\n", "\n", "AUDIO:", "\n">> \o transcript_text
        \o <<"\n">>

\* the budget of _truncate in refine_with_openai
RefineMaxChars == 45000

\* the user message refine_with_openai sends
UserMessage(unified_text) ==
    <<"Usa este contenido para generar SOAP + summary + rp:", "\n", "\n">>
        \o _truncate(unified_text, RefineMaxChars)

\* the budgets of /refine of src/main.py
DoctorMaxChars == 20000
TranscriptMaxChars == 40000
AttachmentsMaxChars == 60000

\* the prompt of /refine of src/main.py; the instructions above the three
\* channels are one atom
Prompt(doctorText, attachmentsText, transcriptText) ==
    LET doctor_text == _clip_text(doctorText, DoctorMaxChars)
        transcript_text == _clip_text(transcriptText, TranscriptMaxChars)
        attachments_text == _clip_text(attachmentsText, AttachmentsMaxChars)
    IN  Strip(<<"\n", "Eres un asistente clinico. [...] Si faltan datos, usa NR.",
                "\n", "\n", "Texto del doctor:", "\n">> \o doctor_text
              \o <<"\n", "\n", "Transcripcion:", "\n">> \o transcript_text
              \o <<"\n", "\n", "Adjuntos:", "\n">> \o attachments_text
              \o <<"\n">>)

BatchOps == {"extract_many", "auto_refine"}
RefineOps == {"app_refine", "top_refine"}

NoStore == [fid \in Ids |-> NoFile]

\* no batch or refine request
BatchIdle ==
    /\ b_op = "none"
    /\ b_store = NoStore
    /\ b_doctor = <<>>
    /\ b_att = <<>>
    /\ b_tr = <<>>
    /\ b_file_ids = <<>>
    /\ b_audio_ids = <<>>
    /\ b_pc = "idle"
    /\ b_i = 1
    /\ b_j = 1
    /\ b_parts = <<>>
    /\ b_tparts = <<>>
    /\ b_out = <<>>
    /\ b_sent = <<>>

\* a text of n characters without whitespace
LongText(n) == [i \in 1..n |-> "a"]

\* the channel texts of a request: none, a short one, and one that is
\* longer than every budget its channel meets
DoctorTexts == {<<>>, <<"d">>, LongText(RefineMaxChars + 1)}
AttachmentsTexts == {<<>>, <<"A">>, LongText(AttachmentsMaxChars + 1)}
TranscriptTexts == {<<>>, <<"T">>, LongText(TranscriptMaxChars + 1)}

BatchInit ==
    /\ b_op \in BatchOps \cup RefineOps
    /\ b_store \in [Ids -> StoredFiles \cup {NoFile}]
    /\ b_doctor \in DoctorTexts
    /\ b_att \in AttachmentsTexts
    /\ b_tr \in TranscriptTexts
    /\ (b_op = "auto_refine" /\ Len(b_doctor) > 1) => b_store = NoStore
    /\ b_file_ids \in IdListsUpTo(MaxFileIds)
    /\ b_audio_ids \in IdListsUpTo(MaxAudioIds)
    /\ b_op \in RefineOps =>
          b_store = NoStore /\ b_file_ids = <<>> /\ b_audio_ids = <<>>
    /\ b_op \in BatchOps => b_att = <<>> /\ b_tr = <<>>
    /\ b_op = "extract_many" => b_audio_ids = <<>> /\ b_doctor = <<>>
    /\ b_pc = IF b_op \in BatchOps THEN "files" ELSE "compose"
    /\ b_i = 1
    /\ b_j = 1
    /\ b_parts = <<>>
    /\ b_tparts = <<>>
    /\ b_out = <<>>
    /\ b_sent = <<>>

\* extract_many: one pass of the loop over request.file_ids
ExtractManyFile ==
    /\ b_op = "extract_many"
    /\ b_pc = "files"
    /\ b_i <= Len(b_file_ids)
    /\ b_parts' = b_parts \o FileSection(b_store, b_file_ids[b_i])
    /\ b_i' = b_i + 1
    /\ UNCHANGED <<b_op, b_store, b_doctor, b_att, b_tr, b_file_ids,
                   b_audio_ids, b_pc, b_j, b_tparts, b_out, b_sent>>
    /\ UNCHANGED exceptBatch

\* extract_many: the loop is over; join and return
ExtractManyReturn ==
    /\ b_op = "extract_many"
    /\ b_pc = "files"
    /\ b_i > Len(b_file_ids)
    /\ b_out' = Strip(Join(b_parts, BlankLine))
    /\ b_pc' = "done"
    /\ UNCHANGED <<b_op, b_store, b_doctor, b_att, b_tr, b_file_ids,
                   b_audio_ids, b_i, b_j, b_parts, b_tparts, b_sent>>
    /\ UNCHANGED exceptBatch

\* auto_refine: one pass of the loop over request.file_ids
AutoRefineFile ==
    /\ b_op = "auto_refine"
    /\ b_pc = "files"
    /\ b_i <= Len(b_file_ids)
    /\ b_parts' = b_parts \o FileSection(b_store, b_file_ids[b_i])
    /\ b_i' = b_i + 1
    /\ UNCHANGED <<b_op, b_store, b_doctor, b_att, b_tr, b_file_ids,
                   b_audio_ids, b_pc, b_j, b_tparts, b_out, b_sent>>
    /\ UNCHANGED exceptBatch

\* auto_refine: the first loop is over; attachments_text is joined
AutoRefineJoinFiles ==
    /\ b_op = "auto_refine"
    /\ b_pc = "files"
    /\ b_i > Len(b_file_ids)
    /\ b_att' = Strip(Join(b_parts, BlankLine))
    /\ b_pc' = "audio"
    /\ UNCHANGED <<b_op, b_store, b_doctor, b_tr, b_file_ids, b_audio_ids,
                   b_i, b_j, b_parts, b_tparts, b_out, b_sent>>
    /\ UNCHANGED exceptBatch

\* auto_refine: one pass of the loop over request.audio_file_ids
AutoRefineAudio ==
    /\ b_op = "auto_refine"
    /\ b_pc = "audio"
    /\ b_j <= Len(b_audio_ids)
    /\ b_tparts' = b_tparts \o AudioSection(b_store, b_audio_ids[b_j])
    /\ b_j' = b_j + 1
    /\ UNCHANGED <<b_op, b_store, b_doctor, b_att, b_tr, b_file_ids,
                   b_audio_ids, b_pc, b_i, b_parts, b_out, b_sent>>
    /\ UNCHANGED exceptBatch

\* auto_refine: the second loop is over; transcript_text is joined, the
\* unified text composed and handed to refine_with_openai
AutoRefineUnify ==
    /\ b_op = "auto_refine"
    /\ b_pc = "audio"
    /\ b_j > Len(b_audio_ids)
    /\ LET transcript_text == Strip(Join(b_tparts, BlankLine))
           unified == Unified(b_doctor, b_att, transcript_text)
       IN  /\ b_tr' = transcript_text
           /\ b_out' = unified
           /\ b_sent' = UserMessage(unified)
    /\ b_pc' = "done"
    /\ UNCHANGED <<b_op, b_store, b_doctor, b_att, b_file_ids, b_audio_ids,
                   b_i, b_j, b_parts, b_tparts>>
    /\ UNCHANGED exceptBatch

\* POST /refine of src/app/main.py
AppRefine ==
    /\ b_op = "app_refine"
    /\ b_pc = "compose"
    /\ LET unified == Unified(b_doctor, b_att, b_tr) IN
           /\ b_out' = unified
           /\ b_sent' = UserMessage(unified)
    /\ b_pc' = "done"
    /\ UNCHANGED <<b_op, b_store, b_doctor, b_att, b_tr, b_file_ids,
                   b_audio_ids, b_i, b_j, b_parts, b_tparts>>
    /\ UNCHANGED exceptBatch

\* POST /refine of src/main.py, with the API key configured
TopRefine ==
    /\ b_op = "top_refine"
    /\ b_pc = "compose"
    /\ b_out' = Prompt(b_doctor, b_att, b_tr)
    /\ b_sent' = Prompt(b_doctor, b_att, b_tr)
    /\ b_pc' = "done"
    /\ UNCHANGED <<b_op, b_store, b_doctor, b_att, b_tr, b_file_ids,
                   b_audio_ids, b_i, b_j, b_parts, b_tparts>>
    /\ UNCHANGED exceptBatch

BatchNext ==
    \/ ExtractManyFile
    \/ ExtractManyReturn
    \/ AutoRefineFile
    \/ AutoRefineJoinFiles
    \/ AutoRefineAudio
    \/ AutoRefineUnify
    \/ AppRefine
    \/ TopRefine

----------------------------------------------------------------------------
(* The reply of the external refiner and its repair:                       *)
(* refine_with_openai of src/app/main.py and /refine of src/main.py        *)

\* JSON values: a string, a number other than 0, null, a key that is
\* missing, a non-empty list, an object
JStr(t) == [type |-> "str", text |-> t]
JNum == [type |-> "num", text |-> <<"5">>]
JNull == [type |-> "null", text |-> <<>>]
JAbsent == [type |-> "absent", text |-> <<>>]

\* the values the refiner may give to a string field
FieldValues ==
    {JAbsent, JNull, JNum, JStr(<<>>), JStr(<<" ">>), JStr(<<"x", " ">>)}

SoapKeys == {"S", "O", "A", "P"}

\* a value of the key "soap" that is no object
SoapOther(type) ==
    [type |-> type, S |-> JAbsent, O |-> JAbsent, A |-> JAbsent, P |-> JAbsent]

\* the values of the key "soap": missing, null, a string without the
\* letters S, O, A, P, a list, or an object
SoapValues ==
    {SoapOther(t) : t \in {"absent", "null", "str", "list"}}
        \cup [type : {"obj"}, S : FieldValues, O : FieldValues,
              A : {JAbsent, JStr(<<"x", " ">>)}, P : {JAbsent, JStr(<<"x", " ">>)}]

\* a reply that is no JSON object: the API call raises, the text is not
\* JSON, or the JSON is a list
ReplyOther(kind) ==
    [kind |-> kind, soap |-> SoapOther("absent"), summary |-> JAbsent,
     rp |-> JAbsent]

Replies ==
    {ReplyOther(k) : k \in {"raises", "invalid_json", "list"}}
        \cup [kind : {"object"}, soap : SoapValues, summary : FieldValues,
              rp : FieldValues]

\* bool(v) of the value of a string field
Truthy(v) == v.type = "num" \/ (v.type = "str" /\ v.text # <<>>)

\* bool(v) of the value of the key "soap"
SoapTruthy(soap) ==
    \/ soap.type \in {"str", "list"}
    \/ soap.type = "obj" /\ \E k \in SoapKeys : soap[k] # JAbsent

\* a refine result: the six fields, or an exception
Refined(S, O, A, P, summary, rp) ==
    [kind |-> "return", status |-> "", S |-> S, O |-> O, A |-> A, P |-> P,
     summary |-> summary, rp |-> rp]

RefineRaises(kind, status) ==
    [kind |-> kind, status |-> status, S |-> JAbsent, O |-> JAbsent,
     A |-> JAbsent, P |-> JAbsent, summary |-> JAbsent, rp |-> JAbsent]

NoRefined == RefineRaises("none", "")

\* messages of the exceptions met while a reply is read
ReplyError(reply) ==
    CASE reply.kind = "raises" -> <<"APIConnectionError">>
      [] reply.kind = "invalid_json" -> <<"JSONDecodeError">>
      [] OTHER -> <<"AttributeError">>

\* (v or "").strip() raises: v is true and has no strip
AppFieldRaises(v) == Truthy(v) /\ v.type # "str"

\* (v or "").strip() or "NR"
AppField(v) ==
    IF ~Truthy(v) THEN JStr(NR)
    ELSE LET t == Strip(v.text) IN JStr(IF t # <<>> THEN t ELSE NR)

\* refine_with_openai from the reply on: the parse and repair inside the
\* try block, and the result of the except branch
refine_with_openai(reply) ==
    LET soap == IF SoapTruthy(reply.soap) THEN reply.soap ELSE SoapOther("obj")
        raises ==
            \/ reply.kind # "object"
            \/ soap.type # "obj"
            \/ \E k \in SoapKeys : AppFieldRaises(soap[k])
            \/ AppFieldRaises(reply.summary)
            \/ AppFieldRaises(reply.rp)
    IN  IF raises
        THEN Refined(JStr(NR), JStr(NR),
                     JStr(<<"Error IA:", " ">> \o ReplyError(reply)),
                     JStr(NR), JStr(NR), JStr(NR))
        ELSE Refined(AppField(soap.S), AppField(soap.O), AppField(soap.A),
                     AppField(soap.P), AppField(reply.summary),
                     AppField(reply.rp))

\* RefineResponse(soap=, resumen=, rp=, unified=) and AutoRefineResponse:
\* the models have no field resumen or unified, and summary keeps its
\* default
RefineResponse(result) == [result EXCEPT !.summary = JStr(<<>>)]

\* the soap key loop of /refine of src/main.py: a missing key becomes "NR"
TopSoapField(v) == IF v = JAbsent THEN JStr(NR) ELSE v

\* the loop over summary and rp: a missing or non-string value becomes "NR"
TopStringField(v) == IF v.type = "str" THEN v ELSE JStr(NR)

\* /refine of src/main.py from the reply on
top_refine(reply) ==
    IF \/ reply.kind # "object"
       \/ reply.soap.type # "obj"
    THEN RefineRaises("raise", "500")
    ELSE Refined(TopSoapField(reply.soap.S), TopSoapField(reply.soap.O),
                 TopSoapField(reply.soap.A), TopSoapField(reply.soap.P),
                 TopStringField(reply.summary), TopStringField(reply.rp))

\* no reply of the refiner
RefineIdle ==
    /\ r_op = "none"
    /\ r_reply = ReplyOther("raises")
    /\ r_fn = NoRefined
    /\ r_res = NoRefined

RefineInit ==
    /\ r_op \in RefineOps \cup {"auto_refine"}
    /\ r_reply \in Replies
    /\ r_fn = NoRefined
    /\ r_res = NoRefined

\* refine and auto_refine of src/app/main.py receive the reply
AppRefineReply ==
    /\ r_op \in {"app_refine", "auto_refine"}
    /\ r_res = NoRefined
    /\ r_fn' = refine_with_openai(r_reply)
    /\ r_res' = RefineResponse(refine_with_openai(r_reply))
    /\ UNCHANGED <<r_op, r_reply>>
    /\ UNCHANGED exceptRefine

\* /refine of src/main.py receives the reply
TopRefineReply ==
    /\ r_op = "top_refine"
    /\ r_res = NoRefined
    /\ r_fn' = top_refine(r_reply)
    /\ r_res' = top_refine(r_reply)
    /\ UNCHANGED <<r_op, r_reply>>
    /\ UNCHANGED exceptRefine

RefineNext == AppRefineReply \/ TopRefineReply

----------------------------------------------------------------------------
(* The blob store: src/storage.py and src/app/_trash/app_app_old/storage.py *)

\* most uploads of a run
MaxUploads == 2

\* the values uuid4 may give, as strings of two characters; no two uploads
\* get the same
FileIds == {<<"a", "b">>, <<"a", "c">>, <<"b", "c">>, <<"c", "a">>}

\* the names files are uploaded with
UploadNames == {<<"n", ".", "t">>, <<"n">>, <<"/", "n">>}

\* the strings a lookup may be asked for: every value of uuid4, the empty
\* string, a proper prefix of a file_id, glob patterns, and a file_id
\* followed by more characters
LookupIds ==
    FileIds \cup {<<>>, <<"a">>, <<"*">>, <<"a", "?">>, <<"a", "b", "c">>}

\* s.startswith(prefix)
StartsWith(str, prefix) ==
    Len(prefix) <= Len(str) /\ SubSeq(str, 1, Len(prefix)) = prefix

RECURSIVE GlobMatch(_, _)
\* the match of Path.glob on one name: "*" stands for any characters, "?"
\* for one
GlobMatch(pattern, name) ==
    IF pattern = <<>> THEN name = <<>>
    ELSE IF Head(pattern) = "*"
    THEN \/ GlobMatch(Tail(pattern), name)
         \/ name # <<>> /\ GlobMatch(pattern, Tail(name))
    ELSE /\ name # <<>>
         /\ Head(pattern) = "?" \/ Head(pattern) = Head(name)
         /\ GlobMatch(Tail(pattern), Tail(name))

\* Path(filename).suffix
Suffix(filename) ==
    IF Len(filename) >= 3 /\ filename[Len(filename) - 1] = "."
    THEN SubSeq(filename, Len(filename) - 1, Len(filename))
    ELSE <<>>

\* filename.replace("/", "_").replace("\\", "_")
SafeName(filename) ==
    [i \in 1..Len(filename) |-> IF filename[i] = "/" THEN "_" ELSE filename[i]]

\* the name save_upload_file stores the upload under
StoredName(variant, file_id, filename) ==
    IF variant = "top" THEN file_id \o Suffix(filename)
    ELSE file_id \o <<"_", "_">> \o SafeName(filename)

\* the stored names a lookup of file_id matches
Matches(variant, files, file_id) ==
    {f.name : f \in {g \in files :
        IF variant = "top" THEN StartsWith(g.name, file_id)
        ELSE GlobMatch(file_id \o <<"_", "_", "*">>, g.name)}}

NotFound == <<"not found">>

NoLookup == [done |-> FALSE, file_id |-> <<>>, found |-> NotFound]

\* no blob store in use
StoreIdle ==
    /\ s_variant = "none"
    /\ s_files = {}
    /\ s_look = NoLookup

StoreInit ==
    /\ s_variant \in {"top", "old"}
    /\ s_files = {}
    /\ s_look = NoLookup

\* save_upload_file of either variant: a fresh file_id, the file written
save_upload_file ==
    /\ Cardinality(s_files) < MaxUploads
    /\ \E file_id \in FileIds \ {f.id : f \in s_files}, filename \in UploadNames :
          s_files' = s_files \cup
              {[id |-> file_id, name |-> StoredName(s_variant, file_id, filename)]}
    /\ UNCHANGED <<s_variant, s_look>>
    /\ UNCHANGED exceptStore

\* get_file_path of src/storage.py: the first entry of iterdir(), whose
\* order the operating system decides, that starts with file_id; else None
get_file_path ==
    /\ s_variant = "top"
    /\ \E file_id \in LookupIds :
          LET matches == Matches("top", s_files, file_id) IN
          \E found \in (IF matches = {} THEN {NotFound} ELSE matches) :
              s_look' = [done |-> TRUE, file_id |-> file_id, found |-> found]
    /\ UNCHANGED <<s_variant, s_files>>
    /\ UNCHANGED exceptStore

\* resolve_file_path of the other storage.py: matches[0] of the glob, in
\* the order the operating system decides; else FileNotFoundError
ResolveFilePath ==
    /\ s_variant = "old"
    /\ \E file_id \in LookupIds :
          LET matches == Matches("old", s_files, file_id) IN
          \E found \in (IF matches = {} THEN {NotFound} ELSE matches) :
              s_look' = [done |-> TRUE, file_id |-> file_id, found |-> found]
    /\ UNCHANGED <<s_variant, s_files>>
    /\ UNCHANGED exceptStore

StoreNext == save_upload_file \/ get_file_path \/ ResolveFilePath

----------------------------------------------------------------------------
(* src/app/_trash/app_app_old/main.py: /upload and the index file          *)
(*                                                                         *)
(* One server process.  upload is a coroutine: the event loop runs it      *)
(* from one await to the next without running another coroutine between.  *)
(* extract_text and transcribe are plain functions, which the framework    *)
(* runs in threads of a pool, beside the event loop.  Path.write_text      *)
(* opens the file, which empties it, and then writes: a thread can read    *)
(* between the two.                                                        *)

\* most /upload requests of a run
MaxRequests == 3

\* the /upload requests of a run; request u gets file_id u from uuid4
Uploads == 1..MaxRequests

\* INDEX_FILE after json.dumps(idx) was written whole
Written(ids) == [whole |-> TRUE, ids |-> ids]

\* INDEX_FILE opened for writing and not yet written
Emptied == [whole |-> FALSE, ids |-> {}]

\* _load_index: the keys of idx["files"]; {"files": {}} when json.loads
\* raises
_load_index == IF i_file.whole THEN i_file.ids ELSE {}

\* no thread of the pool looks an id up
NoIndexLookup == [pc |-> "idle", file_id |-> 0, answer |-> ""]

\* the index is not in use
IndexIdle ==
    /\ i_file = Written({})
    /\ i_pc = [u \in Uploads |-> "none"]
    /\ i_idx = [u \in Uploads |-> {}]
    /\ i_returned = {}
    /\ i_look = NoIndexLookup

IndexInit ==
    /\ i_file = Written({})
    /\ i_pc = [u \in Uploads |-> "start"]
    /\ i_idx = [u \in Uploads |-> {}]
    /\ i_returned = {}
    /\ i_look = NoIndexLookup

\* the event loop is inside no coroutine's _save_index
LoopFree == \A u \in Uploads : i_pc[u] # "saving"

\* upload, to its await of file.read()
UploadRead(u) ==
    /\ LoopFree
    /\ i_pc[u] = "start"
    /\ i_pc' = [i_pc EXCEPT ![u] = "reading"]
    /\ UNCHANGED <<i_file, i_idx, i_returned, i_look>>
    /\ UNCHANGED exceptIndex

\* upload, from the await on: the blob is written, the index loaded and
\* changed, and _save_index opens INDEX_FILE for writing
UploadOpenIndex(u) ==
    /\ LoopFree
    /\ i_pc[u] = "reading"
    /\ i_idx' = [i_idx EXCEPT ![u] = _load_index \cup {u}]
    /\ i_file' = Emptied
    /\ i_pc' = [i_pc EXCEPT ![u] = "saving"]
    /\ UNCHANGED <<i_returned, i_look>>
    /\ UNCHANGED exceptIndex

\* upload: _save_index writes idx, and the response returns file_id
UploadSaveIndex(u) ==
    /\ i_pc[u] = "saving"
    /\ i_file' = Written(i_idx[u])
    /\ i_returned' = i_returned \cup {u}
    /\ i_pc' = [i_pc EXCEPT ![u] = "done"]
    /\ UNCHANGED <<i_idx, i_look>>
    /\ UNCHANGED exceptIndex

\* extract_text or transcribe on a returned file_id, in a thread of the
\* pool: _get_file_path calls _get_file_meta, which loads the index
GetFilePath ==
    /\ i_look.pc \in {"idle", "done"}
    /\ \E file_id \in i_returned :
          i_look' =
              IF file_id \in _load_index
              THEN [pc |-> "path", file_id |-> file_id, answer |-> ""]
              ELSE [pc |-> "done", file_id |-> file_id,
                    answer |-> "file_id no encontrado"]
    /\ UNCHANGED <<i_file, i_pc, i_idx, i_returned>>
    /\ UNCHANGED exceptIndex

\* the handler's own call of _get_file_meta, which loads the index again
GetFileMeta ==
    /\ i_look.pc = "path"
    /\ i_look' =
          [i_look EXCEPT !.pc = "done",
                         !.answer = IF i_look.file_id \in _load_index
                                    THEN "found"
                                    ELSE "file_id no encontrado"]
    /\ UNCHANGED <<i_file, i_pc, i_idx, i_returned>>
    /\ UNCHANGED exceptIndex

IndexNext ==
    \/ \E u \in Uploads : UploadRead(u)
    \/ \E u \in Uploads : UploadOpenIndex(u)
    \/ \E u \in Uploads : UploadSaveIndex(u)
    \/ GetFilePath
    \/ GetFileMeta

----------------------------------------------------------------------------
(* src/main.py: the temporary file of POST /extract                        *)

\* most /extract requests of a run
MaxExtracts == 3

\* a one-page upload named f.<ext> with the given answers of PyMuPDF and of
\* tesseract
Upload(ext, fitz, ocr) ==
    [name |-> <<"f", ".", ext>>, ctype |-> OctetStream,
     pages |-> <<[fitz |-> fitz, ocr |-> ocr]>>, pypdf |-> "absent",
     content |-> <<"x">>, stt |-> Fails]

\* uploads for every way out of the extraction block: a PDF with embedded
\* text, a PDF read by OCR, a PDF nothing reads, an image, an image
\* tesseract fails on, and a file of unsupported extension
TempUploads ==
    {Upload("pdf", Ok(<<"a", "\n">>), Fails),
     Upload("pdf", Ok(<<" ">>), Ok(<<"b", "\n">>)),
     Upload("pdf", Fails, Fails),
     Upload("png", Fails, Ok(<<"b", "\n">>)),
     Upload("png", Fails, Fails),
     Upload("exe", Fails, Fails)}

\* a finally block that removes nothing
RemoveSkipped(tmp, tmp_path) == tmp

\* os.remove(tmp_path) in the finally block
os_remove(tmp, tmp_path) == tmp \ {tmp_path}

\* an exception that is no Exception left the extraction block
Interrupted == Respond(Raise("BaseException", "", <<"CancelledError">>, 0))

\* no /extract request
TempIdle ==
    /\ e_n = 0
    /\ e_pc = "none"
    /\ e_file = NoFile
    /\ e_tmp = {}
    /\ e_res = NoResponse

TempInit ==
    /\ e_n = 0
    /\ e_pc = "idle"
    /\ e_file = NoFile
    /\ e_tmp = {}
    /\ e_res = NoResponse

\* the upload is copied to a new temporary file, named after the request
ExtractCopy ==
    /\ e_pc = "idle"
    /\ e_n < MaxExtracts
    /\ e_file' \in TempUploads
    /\ e_tmp' = e_tmp \cup {e_n + 1}
    /\ e_pc' = "copied"
    /\ UNCHANGED <<e_n, e_res>>
    /\ UNCHANGED exceptTemp

\* the try block runs to one of its return statements
ExtractBlock ==
    /\ e_pc = "copied"
    /\ e_res' = Respond(extract(e_file))
    /\ e_pc' = "finally"
    /\ UNCHANGED <<e_n, e_file, e_tmp>>
    /\ UNCHANGED exceptTemp

\* the try block is left by an exception no except clause catches
ExtractBlockRaises ==
    /\ e_pc = "copied"
    /\ e_res' = Interrupted
    /\ e_pc' = "finally"
    /\ UNCHANGED <<e_n, e_file, e_tmp>>
    /\ UNCHANGED exceptTemp

\* the finally block, and the end of the request
ExtractFinally ==
    /\ e_pc = "finally"
    /\ e_tmp' = os_remove(e_tmp, e_n + 1)
    /\ e_n' = e_n + 1
    /\ e_pc' = "idle"
    /\ UNCHANGED <<e_file, e_res>>
    /\ UNCHANGED exceptTemp

TempNext ==
    ExtractCopy \/ ExtractBlock \/ ExtractBlockRaises \/ ExtractFinally

----------------------------------------------------------------------------
(* Specifications *)

\* truncation runs
TruncStart ==
    TruncInit /\ ExtractIdle /\ BatchIdle /\ RefineIdle /\ StoreIdle /\ IndexIdle /\ TempIdle
SpecTrunc == TruncStart /\ [][TruncNext]_vars

\* single-file requests
ExtractStart ==
    ExtractInit /\ TruncIdle /\ BatchIdle /\ RefineIdle /\ StoreIdle /\ IndexIdle /\ TempIdle
SpecExtract == ExtractStart /\ [][ExtractNext]_vars

\* batch and refine requests
BatchStart ==
    BatchInit /\ TruncIdle /\ ExtractIdle /\ RefineIdle /\ StoreIdle /\ IndexIdle /\ TempIdle
SpecBatch == BatchStart /\ [][BatchNext]_vars

\* replies of the external refiner
RefineStart ==
    RefineInit /\ TruncIdle /\ ExtractIdle /\ BatchIdle /\ StoreIdle /\ IndexIdle /\ TempIdle
SpecRefine == RefineStart /\ [][RefineNext]_vars

\* uploads and lookups of the blob store
StoreStart ==
    StoreInit /\ TruncIdle /\ ExtractIdle /\ BatchIdle /\ RefineIdle
        /\ IndexIdle /\ TempIdle
SpecStore == StoreStart /\ [][StoreNext]_vars

\* uploads and lookups of the index-based variant
IndexStart ==
    IndexInit /\ TruncIdle /\ ExtractIdle /\ BatchIdle /\ RefineIdle
        /\ StoreIdle /\ TempIdle
SpecIndex == IndexStart /\ [][IndexNext]_vars

\* sequences of /extract requests and their temporary files
TempStart ==
    TempInit /\ TruncIdle /\ ExtractIdle /\ BatchIdle /\ RefineIdle
        /\ StoreIdle /\ IndexIdle
SpecTemp == TempStart /\ [][TempNext]_vars

----------------------------------------------------------------------------
(* Terms of the claims about single-file requests *)

\* the atoms of a text
Atoms(text) == {text[i] : i \in 1..Len(text)}

\* the request has been answered
Answered == x_res # NoResponse

\* the request is a PDF sent to an extractor that has an OCR stage
PdfRequest ==
    /\ x_op \in {"extract", "app_extract_text"}
    /\ x_file # NoFile
    /\ LowerAtom(x_file.name[Len(x_file.name)]) = "pdf"

\* the pages the embedded-text stage may read
PageLimit ==
    IF x_op = "extract" THEN Min(Len(x_file.pages), MAX_PDF_PAGES)
    ELSE Len(x_file.pages)

\* the pages the OCR stage may read
OcrPageLimit ==
    IF x_op = "extract" THEN Min(Len(x_file.pages), MAX_PDF_PAGES)
    ELSE Min(Len(x_file.pages), OcrMaxPages)

\* page i answers PyMuPDF with text that is not only whitespace
HasEmbeddedText(i) ==
    x_file.pages[i].fitz.ok /\ Strip(x_file.pages[i].fitz.text) # <<>>

\* PyMuPDF read a page with embedded text: no earlier page raised
EmbeddedTextRead ==
    \E i \in 1..PageLimit :
        /\ HasEmbeddedText(i)
        /\ \A j \in 1..(i - 1) : x_file.pages[j].fitz.ok

\* embedded-text extraction ran to its end and found only whitespace
EmbeddedTextBlank ==
    /\ \A i \in 1..PageLimit : x_file.pages[i].fitz.ok /\ ~HasEmbeddedText(i)
    /\ x_op = "extract" => x_file.pypdf = "blank"

\* the endpoint refused the file as one of a kind it does not handle
Rejected ==
    CASE x_op = "extract" -> x_res.text = NR /\ x_res.ocr_calls = 0
      [] x_op = "app_extract_text" -> x_res.status = "400"
      [] x_op = "app_transcribe" -> x_res.status = "400"
      [] x_op = "old_extract_text" -> x_res.status = "415"
      [] OTHER -> FALSE

\* the kind of an extension in the table of spec section 4.1
TableKind(e) ==
    CASE e \in {"txt", "md"} -> "PlainText"
      [] e = "pdf" -> "Pdf"
      [] e \in {"png", "jpg", "jpeg", "webp", "tif", "tiff", "bmp"} -> "Image"
      [] e \in {"mp3", "wav", "m4a", "aac", "ogg", "webm", "flac"} -> "Audio"
      [] OTHER -> "Unsupported"

\* the lower-cased extension of the file of the request, "" without one
RequestExt ==
    IF Len(x_file.name) >= 3 THEN LowerAtom(x_file.name[Len(x_file.name)]) ELSE ""

----------------------------------------------------------------------------
(* C7: for a PDF, OCR is invoked if and only if embedded-text extraction   *)
(* yields only whitespace: once a page with embedded text has been read,   *)
(* the result is embedded text and tesseract is never called; when the     *)
(* embedded-text stage finds only whitespace the OCR stage runs and, when  *)
(* tesseract answers for every page, its text is what is returned.         *)
C7_OcrIffNoEmbeddedText ==
    (Answered /\ PdfRequest) =>
        /\ EmbeddedTextRead =>
              /\ x_res.ocr_calls = 0
              /\ x_res.kind = "ok"
              /\ "a" \in Atoms(x_res.text) \/ "c" \in Atoms(x_res.text)
        /\ EmbeddedTextBlank =>
              /\ x_res.ocr_calls > 0
              /\ (\A i \in 1..OcrPageLimit : x_file.pages[i].ocr.ok) =>
                    /\ x_res.kind = "ok"
                    /\ "a" \notin Atoms(x_res.text)
                    /\ (\E i \in 1..OcrPageLimit :
                            Strip(x_file.pages[i].ocr.text) # <<>>)
                          => "b" \in Atoms(x_res.text)

(* C8: no error of a PDF, OCR or image library escapes an extraction:      *)
(* /extract always answers with a non-empty text, and /extract-text never  *)
(* ends with an exception its handler did not turn into a result.          *)
C8_LibraryErrorsContained ==
    Answered =>
        /\ x_op = "extract" => x_res.kind = "ok" /\ x_res.text # <<>>
        /\ x_op = "app_extract_text" => x_res.kind # "unhandled"

(* C9: extracting a file of unsupported kind (a name ending in .exe) ends  *)
(* with a failure whose reason mentions the kind, without a call to a      *)
(* decoder and without an exception escaping, in every variant.            *)
C9_UnsupportedKindFailure ==
    (/\ Answered
     /\ x_op \in ExtractOps
     /\ x_file # NoFile
     /\ RequestExt = "exe"
     /\ x_file.ctype = OctetStream) =>
        /\ x_res.kind = "http_error"
        /\ x_res.ocr_calls = 0
        /\ "exe" \in Atoms(x_res.msg) \/ "octet-stream" \in Atoms(x_res.msg)

(* C10: every extension of the table, in any letter case, is accepted by   *)
(* the extractor (text, PDF and image extensions) or the transcriber       *)
(* (audio extensions) of each variant.                                     *)
C10_TableExtensionsAccepted ==
    (Answered /\ x_file # NoFile /\ x_file.ctype = OctetStream) =>
        /\ (/\ x_op \in ExtractOps
            /\ TableKind(RequestExt) \in {"PlainText", "Pdf", "Image"})
              => ~Rejected
        /\ (x_op \in TranscribeOps /\ TableKind(RequestExt) = "Audio")
              => ~Rejected

\* the kind the declared content type announces by its prefix
ContentTypeKind(ct) ==
    CASE StartsWithType(ct, "text") -> "PlainText"
      [] ct = <<"application", "/", "pdf">> -> "Pdf"
      [] StartsWithType(ct, "image") -> "Image"
      [] StartsWithType(ct, "audio") -> "Audio"
      [] OTHER -> "Unsupported"

(* C11: a file whose name has no extension or an extension outside the     *)
(* table is handled by the kind of its declared content type: the          *)
(* extractors accept it when the content type is text/*, application/pdf   *)
(* or image/*, the transcribers when it is audio/*; it is refused only     *)
(* when the content type matches nothing either.                           *)
C11_ContentTypeFallback ==
    (/\ Answered
     /\ x_file # NoFile
     /\ TableKind(RequestExt) = "Unsupported") =>
        /\ (/\ x_op \in ExtractOps
            /\ ContentTypeKind(Lower(x_file.ctype)) \in {"PlainText", "Pdf", "Image"})
              => ~Rejected
        /\ (/\ x_op \in TranscribeOps
            /\ ContentTypeKind(Lower(x_file.ctype)) = "Audio")
              => ~Rejected

\* the most pages one stage of the extractor of the request may read
PageCap == IF x_op = "extract" THEN MAX_PDF_PAGES ELSE OcrMaxPages

RECURSIVE Accumulated(_, _)
\* the characters gathered from the first k pages of the answers of one
\* library: each page text without its surrounding whitespace, and a blank
\* line after it
Accumulated(answers, k) ==
    IF k = 0 THEN 0
    ELSE LET t == Strip(answers[k].text) IN
         Accumulated(answers, k - 1) + (IF t # <<>> THEN Len(t) + 2 ELSE 0)

\* PyMuPDF answers every page, and the text of the first k pages reaches
\* the character cap
CapReachedAt(k) ==
    /\ k <= Len(x_file.pages)
    /\ \A i \in 1..Len(x_file.pages) : x_file.pages[i].fitz.ok
    /\ Accumulated([i \in 1..Len(x_file.pages) |-> x_file.pages[i].fitz], k)
          >= MAX_EXTRACT_CHARS

(* C14: a PDF extraction reads at most the configured number of pages in   *)
(* the embedded-text stage and renders at most that many in the OCR stage, *)
(* and the page loop reads no page after the accumulated text has reached  *)
(* the character cap.                                                      *)
C14_ExtractionWithinCaps ==
    (Answered /\ PdfRequest) =>
        /\ x_res.text_reads <= PageCap
        /\ x_res.ocr_calls <= PageCap
        /\ \A k \in 1..Len(x_file.pages) :
              (x_op = "extract" /\ CapReachedAt(k)) => x_res.text_reads <= k

\* the request extracts a file named *.txt with an extractor of plain text
PlainTextRequest ==
    /\ x_op \in {"app_extract_text", "old_extract_text"}
    /\ x_file # NoFile
    /\ RequestExt = "txt"

\* the bytes are valid UTF-8
ValidUtf8(bytes) == Decode(bytes, "replace") = Decode(bytes, "ignore")

(* C15: plain-text extraction always returns a text: the decoded content   *)
(* without its leading and trailing whitespace, where every byte sequence  *)
(* that is not UTF-8 has become a replacement character; for valid UTF-8   *)
(* that is the content itself, trimmed.                                    *)
C15_PlainTextRoundTrip ==
    (Answered /\ PlainTextRequest) =>
        /\ x_res.kind = "ok"
        /\ x_res.text = Strip(Decode(x_file.content, "replace"))

----------------------------------------------------------------------------
(* Terms of the claims about batch and refine requests *)

\* the positions of text that hold an atom of the set marks, in order
Positions(text, marks) ==
    SelectSeq([i \in 1..Len(text) |-> i], LAMBDA i : text[i] \in marks)

\* the file_ids of the sections of text whose header is in headers, in the
\* order of the text: a header is followed by a space and the file_id
SectionIds(text, headers) ==
    LET at == Positions(text, headers) IN
    [k \in 1..Len(at) |-> text[at[k] + 2]]

\* the elements of a sequence
Range(s) == {s[i] : i \in 1..Len(s)}

FileHeaders == {"--- Documento", "--- Error"}
AudioHeaders == {"--- Audio", "--- Error audio"}
ErrorHeaders == {"--- Error", "--- Error audio"}

\* the channel a label of a composed text announces
ChannelOf(label) ==
    CASE label \in {"DOCTOR:", "Texto del doctor:"} -> "doctor"
      [] label \in {"ADJUNTOS:", "Adjuntos:"} -> "attachments"
      [] OTHER -> "audio"

ChannelLabels ==
    {"DOCTOR:", "Texto del doctor:", "ADJUNTOS:", "Adjuntos:", "AUDIO:",
     "Transcripcion:"}

\* the channels of a composed text in the order it places them
ChannelOrder(text) ==
    LET at == Positions(text, ChannelLabels) IN
    [k \in 1..Len(at) |-> ChannelOf(text[at[k]])]

\* the listed ids that fail in the try block, in request order
FailingIds(ids, Try(_, _)) ==
    SelectSeq(ids, LAMBDA f : Try(b_store, f).kind = "raise")

\* the error markers among parts, in order
ErrorParts(parts) == SelectSeq(parts, LAMBDA p : p[1] \in ErrorHeaders)

\* the error markers are those of the failing ids, one each and in order,
\* each with the id and the reason of the failure
MarkersMatch(parts, ids, Try(_, _)) ==
    LET failing == FailingIds(ids, Try)
        errs == ErrorParts(parts)
    IN  /\ Len(errs) = Len(failing)
        /\ \A k \in 1..Len(errs) :
              /\ errs[k][3] = failing[k]
              /\ Atoms(Try(b_store, failing[k]).msg) \subseteq Atoms(errs[k])

(* C1: in extract_many and auto_refine the loop visits every id of the     *)
(* list: each id that is not found, is of unsupported type or makes a      *)
(* library raise yields one error marker with the id and the reason, the   *)
(* request is never aborted, and every other id that has text keeps its    *)
(* section, in request order.                                              *)
C1_BatchVisitsEveryId ==
    (b_op \in BatchOps /\ b_pc = "done") =>
        /\ b_i = Len(b_file_ids) + 1
        /\ MarkersMatch(b_parts, b_file_ids, ResolveAndExtract)
        /\ SectionIds(b_out, FileHeaders)
              = SelectSeq(b_file_ids, LAMBDA f :
                    LET r == ResolveAndExtract(b_store, f) IN
                    r.kind = "raise" \/ r.text # <<>>)
        /\ b_op = "auto_refine" =>
              /\ b_j = Len(b_audio_ids) + 1
              /\ MarkersMatch(b_tparts, b_audio_ids, ResolveAndTranscribe)
              /\ SectionIds(b_out, AudioHeaders) = b_audio_ids

\* a batch whose first id failed and whose second id has its section
C1_Witness ==
    /\ b_op \in BatchOps
    /\ b_pc = "done"
    /\ Len(b_file_ids) = 2
    /\ b_file_ids[1] # b_file_ids[2]
    /\ ResolveAndExtract(b_store, b_file_ids[1]).kind = "raise"
    /\ ResolveAndExtract(b_store, b_file_ids[2]).kind = "return"
    /\ Len(b_parts) = 2
    /\ b_parts[1][1] = "--- Error"
    /\ b_parts[2][1] = "--- Documento"

(* C2: every text that composes the three channels places them in the      *)
(* order doctor text, attachments, audio transcripts; in auto_refine the   *)
(* attachment sections lie in the attachments channel in the order of      *)
(* request.file_ids and the audio sections in the audio channel in the     *)
(* order of request.audio_file_ids.                                        *)
C2_ChannelOrder ==
    (b_op \in RefineOps \cup {"auto_refine"} /\ b_pc = "done") =>
        /\ ChannelOrder(b_out) = <<"doctor", "attachments", "audio">>
        /\ b_op = "auto_refine" =>
              LET files == SectionIds(b_out, FileHeaders)
                  audios == SectionIds(b_out, AudioHeaders)
                  adjuntos == Positions(b_out, {"ADJUNTOS:"})[1]
                  audio == Positions(b_out, {"AUDIO:"})[1]
                  file_at == Positions(b_out, FileHeaders)
                  audio_at == Positions(b_out, AudioHeaders)
              IN  /\ files = SelectSeq(b_file_ids, LAMBDA f : f \in Range(files))
                  /\ audios = SelectSeq(b_audio_ids, LAMBDA f : f \in Range(audios))
                  /\ \A k \in 1..Len(file_at) :
                        adjuntos < file_at[k] /\ file_at[k] < audio
                  /\ \A k \in 1..Len(audio_at) : audio < audio_at[k]

(* C3: a source whose extraction or transcription succeeds with an empty   *)
(* string contributes no section and no header line to the output of       *)
(* extract_many or auto_refine.                                            *)
C3_EmptyTextNoSection ==
    (b_op \in BatchOps /\ b_pc = "done") =>
        /\ \A k \in 1..Len(b_file_ids) :
              LET r == ResolveAndExtract(b_store, b_file_ids[k]) IN
              (r.kind = "return" /\ r.text = <<>>)
                  => b_file_ids[k] \notin Range(SectionIds(b_out, FileHeaders))
        /\ \A k \in 1..Len(b_audio_ids) :
              LET r == ResolveAndTranscribe(b_store, b_audio_ids[k]) IN
              (r.kind = "return" /\ r.text = <<>>)
                  => b_audio_ids[k] \notin Range(SectionIds(b_out, AudioHeaders))

\* the paths that hand a text to the external refiner
RefinePaths == RefineOps \cup {"auto_refine"}

\* the characters of the text sent by a path that belong to no channel:
\* instructions, labels and separators
SentFrame ==
    IF b_op = "top_refine"
    THEN Len(Prompt(<<"x">>, <<"x">>, <<"x">>)) - 3
    ELSE Len(UserMessage(Unified(<<"x">>, <<"x">>, <<"x">>))) - 3

\* the longer of the two truncation markers
LongestMarker ==
    IF Len(ClipMarker) >= Len(TruncateMarker) THEN Len(ClipMarker)
    ELSE Len(TruncateMarker)

(* C12: each of doctor text, transcript and attachments is truncated on    *)
(* its own before the three are combined: whatever the length of the other *)
(* channels, the text sent to the refiner holds the label of every         *)
(* channel and the whole of every channel that is shorter than its budget, *)
(* and its length is at most the sum of the three budgets plus three       *)
(* markers and the fixed labels, in refine and in auto_refine.             *)
C12_ChannelsTruncatedIndependently ==
    (b_op \in RefinePaths /\ b_pc = "done") =>
        /\ ChannelOrder(b_sent) = ChannelOrder(b_out)
        /\ Len(b_doctor) = 1 => b_doctor[1] \in Atoms(b_sent)
        /\ Len(b_att) = 1 => b_att[1] \in Atoms(b_sent)
        /\ Len(b_tr) = 1 => b_tr[1] \in Atoms(b_sent)
        /\ Len(b_sent) <= DoctorMaxChars + TranscriptMaxChars
                            + AttachmentsMaxChars + 3 * LongestMarker
                            + SentFrame

----------------------------------------------------------------------------
(* C16: a lookup gives the file that save_upload_file stored under exactly *)
(* the file_id asked for, and reports not found for every string that no   *)
(* upload returned as its file_id: the empty string, a proper prefix of a  *)
(* file_id, a glob pattern.                                                *)
C16_LookupExact ==
    [][s_look' # s_look =>
          IF \E f \in s_files : f.id = s_look'.file_id
          THEN \E f \in s_files :
                   f.id = s_look'.file_id /\ f.name = s_look'.found
          ELSE s_look'.found = NotFound]_vars

----------------------------------------------------------------------------
(* C17: whatever the interleaving of the /upload requests, every file_id   *)
(* a completed upload returned has its entry in the index file once no     *)
(* upload is writing it, and a request that looks such a file_id up never  *)
(* answers "file_id no encontrado".                                        *)
C17_ReturnedIdsStayIndexed ==
    /\ LoopFree => (i_file.whole /\ i_returned \subseteq i_file.ids)
    /\ i_look.pc = "done" => i_look.answer = "found"

----------------------------------------------------------------------------
----------------------------------------------------------------------------
(* Terms of the claims about the reply of the refiner *)

RefinedFields == {"S", "O", "A", "P", "summary", "rp"}

\* what the reply holds for a field of the result
ReplyField(f) == IF f \in SoapKeys THEN r_reply.soap[f] ELSE r_reply[f]

\* the reply is an object whose "soap" is an object and whose fields are
\* strings, null or left out
WellFormedReply ==
    /\ r_reply.kind = "object"
    /\ r_reply.soap.type = "obj"
    /\ \A f \in RefinedFields : ReplyField(f).type \in {"absent", "null", "str"}

(* C13: whatever the external refiner returns, the response of a refine    *)
(* endpoint is a result, not an error, whose fields S, O, A, P, summary    *)
(* and rp are all strings, and a field that a well-formed reply leaves out *)
(* or gives as the empty string is "NR".                                   *)
C13_RefinedAlwaysComplete ==
    r_res # NoRefined =>
        /\ r_res.kind = "return"
        /\ \A f \in RefinedFields : r_res[f].type = "str"
        /\ WellFormedReply =>
              \A f \in RefinedFields :
                  ReplyField(f) \in {JAbsent, JStr(<<>>)} => r_res[f] = JStr(NR)

----------------
(* C4: truncation is idempotent: applying the truncator a second time with *)
(* the same budget gives the same string as applying it once.              *)
C4_TruncationIdempotent ==
    Len(t_out) = 2 => t_out[2] = t_out[1]

(* C5 as stated: a text no longer than max_chars is returned unchanged,    *)
(* leading and trailing whitespace included.                               *)
C5_Original_ShortTextUnchanged ==
    (Len(t_out) >= 1 /\ Len(t_text) <= t_max) => t_out[1] = t_text

(* C5 amended: a text no longer than max_chars is returned with only its   *)
(* leading and trailing whitespace removed, and no marker is appended.     *)
C5_ShortTextStripped ==
    (Len(t_out) >= 1 /\ Len(t_text) <= t_max) => t_out[1] = Strip(t_text)

\* a short text with whitespace at both ends has been truncated
C5_Witness ==
    /\ Len(t_out) >= 1
    /\ Len(t_text) <= t_max
    /\ Len(t_text) >= 3
    /\ IsSpace(t_text[1])
    /\ IsSpace(t_text[Len(t_text)])
    /\ t_out[1] # <<>>

(* C6 as stated: the result is never longer than N plus the marker, and    *)
(* when the input is longer than N the result ends with the marker.        *)
C6_Original_BoundAndMarker ==
    Len(t_out) >= 1 =>
        /\ Len(t_out[1]) <= t_max + Len(MarkerOf(t_fn))
        /\ Len(t_text) > t_max => EndsWith(t_out[1], MarkerOf(t_fn))

(* C6 amended: the result is never longer than N plus the marker, and when *)
(* the input without its leading and trailing whitespace is longer than N  *)
(* the result ends with the marker.                                        *)
C6_BoundAndMarker ==
    Len(t_out) >= 1 =>
        /\ Len(t_out[1]) <= t_max + Len(MarkerOf(t_fn))
        /\ Len(Strip(t_text)) > t_max => EndsWith(t_out[1], MarkerOf(t_fn))

\* a text longer than its budget has been cut at the budget
C6_Witness ==
    /\ Len(t_out) >= 1
    /\ t_max >= 1
    /\ Len(Strip(t_text)) > t_max
    /\ Len(t_out[1]) = t_max + Len(MarkerOf(t_fn))

=============================================================================
